---- MODULE Spec2Model ----
(***************************************************************************)
(* Hebrew call-center simulation: the per-message pipeline                 *)
(* (nikud -> TTS -> STT -> transcript) of HebrewCallCenterCrew and the     *)
(* session loop around it, with the three stage wrappers and the log       *)
(* store they write to.                                                    *)
(*                                                                         *)
(* Strings are sequences of tokens.  The token SP is a whitespace          *)
(* character; every other token is a run of non-whitespace characters.     *)
(***************************************************************************)
EXTENDS Integers, Sequences, FiniteSets, TLC

VARIABLES
    pc,               \* position of the single thread of control
    max_turns,        \* HebrewCallCenterCrew.max_turns
    script,           \* conversation_script[:self.max_turns]
    i,                \* loop counter of run_conversation_simulation (step_num)
    nikud_text,       \* local of process_hebrew_message
    audio_file,       \* local of process_hebrew_message
    transcribed_text, \* local of process_hebrew_message
    error_msg,        \* local of the except branch of process_hebrew_message
    results,          \* local list of run_conversation_simulation
    session,          \* the dict returned by run_conversation_simulation
    transcript,       \* contents of output/transcript.txt
    call_log,         \* contents of logs/call_log.txt
    files,            \* audio files on disk under output/
    chatterbox_model, \* tts_tool.chatterbox_model
    torch_load,       \* what torch.load is bound to
    whisper_model,    \* stt_tool.whisper_model
    last,             \* the stage call just made: its behaviour and return
    calls,            \* history: the stage calls of the session, in order
    faults,           \* number of stage calls with a non-nominal behaviour
    api_key,          \* whether OPENAI_API_KEY is set in the environment
    exit_code,        \* exit code of the process, Running until it exits
    runs,             \* calls of run_conversation_simulation so far
    resets,           \* calls of the initialize_call_session tool so far
    io_failed         \* history: the log operations that met an I/O error

vars == <<pc, max_turns, script, i, nikud_text, audio_file, transcribed_text,
          error_msg, results, session, transcript, call_log, files,
          chatterbox_model, torch_load, whisper_model, last, calls, faults,
          api_key, exit_code, runs, resets, io_failed>>

----------------------------------------------------------------------------
(* Bounds of the model *)

\* at most this many stage calls of one process behave non-nominally
MaxFaults == 1

\* values of MAX_CONVERSATION_TURNS tried
Caps == {-7, -1, 0, 3, 4, 7}

\* at most this many calls of run_conversation_simulation in one process
MaxRuns == 2

\* at most this many calls of the initialize_call_session tool
MaxResets == 2

\* at most this many calls of a stage tool outside a session
MaxToolCalls == 2

----------------------------------------------------------------------------
(* Strings *)

SP == " "

EmptyStr == <<>>

\* str.strip(): drop leading and trailing whitespace
RECURSIVE LStrip(_)
LStrip(s) == IF s # <<>> /\ Head(s) = SP THEN LStrip(Tail(s)) ELSE s

RECURSIVE RStrip(_)
RStrip(s) ==
    IF s # <<>> /\ s[Len(s)] = SP THEN RStrip(SubSeq(s, 1, Len(s) - 1)) ELSE s

Strip(s) == RStrip(LStrip(s))

\* Python truthiness of a str
Truthy(s) == s # <<>>

\* empty or whitespace-only
IsBlank(s) == \A k \in 1..Len(s) : s[k] = SP

ToStr(n) ==
    CASE n = -1 -> "-1" [] n = 0 -> "0" [] n = 1 -> "1" [] n = 2 -> "2" [] n = 3 -> "3"
      [] n = 4 -> "4" [] n = 5 -> "5" [] n = 6 -> "6" [] n = 7 -> "7"
      [] n = 8 -> "8" [] n = 9 -> "9"

Min(a, b) == IF a < b THEN a ELSE b
Max(a, b) == IF a > b THEN a ELSE b

\* the slice forgotten: the whole sequence
PySlice_NoCap(s, k) == s

\* Python seq[:k]
PySlice(s, k) ==
    IF k >= 0 THEN SubSeq(s, 1, Min(k, Len(s)))
    ELSE SubSeq(s, 1, Max(Len(s) + k, 0))

----------------------------------------------------------------------------
(* The fixed dialogue *)

ScriptLen == 6

conversation_script ==
    [n \in 1..ScriptLen |->
        [speaker |-> IF n % 2 = 1 THEN "customer" ELSE "support",
         text    |-> <<"line" \o ToStr(n)>>]]

----------------------------------------------------------------------------
(* Diacritization stage: tools/nikud_tool.py *)

NikudMarker == <<"[NIKUD ERROR]", SP, "e">>

\* what the Phonikud model makes of a text when it works
Diacritized(text) == text \o <<"~">>

\* One call's behaviour of what the stage depends on:
\*   lib         the import of phonikud_tts: fine, ImportError, any other error
\*   path_exists os.path.exists(model_path)
\*   ctor        Phonikud(model_path)
\*   infer, out  model.add_diacritics: raises, or returns out
NikudBehaviours(text) ==
    [lib : {"ok", "ImportError", "OtherError"},
     path_exists : BOOLEAN,
     ctor : {"ok", "raise"},
     infer : {"ok", "raise"},
     out : {Diacritized(text), EmptyStr, <<SP>>}]

NominalNikud(text) ==
    [lib |-> "ok", path_exists |-> TRUE, ctor |-> "ok", infer |-> "ok",
     out |-> Diacritized(text)]

\* the body of the try block: what it returns, or the exception it raises
\* load_attempted: Phonikud(model_path) was called, which loads the model
add_nikud_try(text, b) ==
    IF b.lib = "ImportError"
    THEN [raised |-> TRUE, exc |-> "ImportError", load_attempted |-> FALSE]
    ELSE IF b.lib = "OtherError"
    THEN [raised |-> TRUE, exc |-> "Exception", load_attempted |-> FALSE]
    ELSE IF ~b.path_exists
    THEN [raised |-> FALSE, ret |-> text, load_attempted |-> FALSE]
    ELSE IF b.ctor = "raise"
    THEN [raised |-> TRUE, exc |-> "Exception", load_attempted |-> TRUE]
    ELSE IF b.infer = "raise"
    THEN [raised |-> TRUE, exc |-> "Exception", load_attempted |-> TRUE]
    ELSE [raised |-> FALSE, ret |-> b.out, load_attempted |-> TRUE]

\* only the ImportError handled
add_nikud_to_hebrew_text_impl_NoCatch(text, b) ==
    LET r == add_nikud_try(text, b)
    IN  IF ~r.raised THEN r
        ELSE IF r.exc = "ImportError"
        THEN [raised |-> FALSE, ret |-> text,
              load_attempted |-> r.load_attempted]
        ELSE [raised |-> TRUE, load_attempted |-> r.load_attempted]

add_nikud_to_hebrew_text_impl(text, b) ==
    LET r == add_nikud_try(text, b)
    IN  IF ~r.raised THEN r
        ELSE IF r.exc = "ImportError"
        THEN [raised |-> FALSE, ret |-> text,
              load_attempted |-> r.load_attempted]
        ELSE [raised |-> FALSE, ret |-> NikudMarker,
              load_attempted |-> r.load_attempted]

----------------------------------------------------------------------------
(* Speech synthesis stage: tools/tts_tool.py *)

sample_rate == 16000
duration_seconds == 2

FallbackMarker == <<"[FALLBACK TTS ERROR]", SP, "e">>

\* the step_number argument, an Optional[int]: None, or the integer n
NoStep == [given |-> FALSE, n |-> 0]

Given(n) == [given |-> TRUE, n |-> n]

\* `if step_number:` is false for None and for 0
StepTruthy(step_number) == step_number.given /\ step_number.n # 0

Exists(fs, path) == \E f \in fs : f.path = path

WriteFile(fs, f) == {g \in fs : g.path # f.path} \cup {f}

\* One call's behaviour of the engine and of the wave writer
TtsBehaviours ==
    [load : {"ok", "raise"}, generate : {"ok", "raise"},
     save : {"ok", "raise"}, fallback : {"ok", "raise"}]

NominalTts ==
    [load |-> "ok", generate |-> "ok", save |-> "ok", fallback |-> "ok"]

initialize_chatterbox(model, torch, b) ==
    IF model = "None"
    THEN [model |-> IF b.load = "ok" THEN "loaded" ELSE "None",
          torch |-> "original",
          load_attempted |-> TRUE, torch_at_load |-> torch]
    ELSE [model |-> model, torch |-> torch,
          load_attempted |-> FALSE, torch_at_load |-> torch]

FallbackName(step_number) ==
    IF StepTruthy(step_number)
    THEN <<"output/", "audio_step_", ToStr(step_number.n), "_fallback", ".wav">>
    ELSE <<"output/", "tts_silent_", "uuid", ".wav">>

PrimaryName(step_number) ==
    IF StepTruthy(step_number)
    THEN <<"output/", "audio_step_", ToStr(step_number.n), ".wav">>
    ELSE <<"output/", "tts_", "uuid", ".wav">>

\* two channels written instead of one
SilentWav_Stereo(path) ==
    [path |-> path, kind |-> "silent", nchannels |-> 2, sampwidth |-> 2,
     framerate |-> sample_rate, nframes |-> sample_rate * duration_seconds]

SilentWav(path) ==
    [path |-> path, kind |-> "silent", nchannels |-> 1, sampwidth |-> 2,
     framerate |-> sample_rate, nframes |-> sample_rate * duration_seconds]

SpeechWav(path) == [path |-> path, kind |-> "speech"]

_fallback_tts_try(text, step_number, fs, b) ==
    IF b.fallback = "raise"
    THEN [raised |-> TRUE, files |-> fs]
    ELSE [raised |-> FALSE, ret |-> FallbackName(step_number),
          files |-> WriteFile(fs, SilentWav(FallbackName(step_number)))]

\* the writer's exception let through
_fallback_tts_NoCatch(text, step_number, fs, b) ==
    _fallback_tts_try(text, step_number, fs, b)

_fallback_tts(text, step_number, fs, b) ==
    LET r == _fallback_tts_try(text, step_number, fs, b)
    IN  IF ~r.raised THEN r
        ELSE [raised |-> FALSE, ret |-> FallbackMarker, files |-> r.files]

\* the body of the try block, up to the point where it raises or returns
convert_try(text, step_number, model, fs, b) ==
    IF model = "None"
    THEN _fallback_tts(text, step_number, fs, b) @@ [primary |-> FALSE]
    ELSE IF b.generate = "raise" \/ b.save = "raise"
    THEN [raised |-> TRUE, files |-> fs]
    ELSE [raised |-> FALSE, ret |-> PrimaryName(step_number),
          files |-> WriteFile(fs, SpeechWav(PrimaryName(step_number))),
          primary |-> TRUE]

convert_hebrew_text_to_speech_impl(text, step_number, model, torch, fs, b) ==
    LET init == initialize_chatterbox(model, torch, b)
        r    == convert_try(text, step_number, init.model, fs, b)
        out  == IF ~r.raised THEN r
                ELSE _fallback_tts(text, step_number, r.files, b)
                         @@ [primary |-> FALSE]
    IN  out @@ [model |-> init.model, torch |-> init.torch,
                load_attempted |-> init.load_attempted,
                torch_at_load |-> init.torch_at_load]

----------------------------------------------------------------------------
(* Transcription stage: tools/stt_tool.py *)

\* what whisper_model.transcribe may put in result["text"]
WhisperTexts == {<<SP, "heard">>, EmptyStr, <<SP>>}

SttBehaviours ==
    [ffmpeg : BOOLEAN, infer : {"ok", "raise"}, raw : WhisperTexts]

NominalStt == [ffmpeg |-> TRUE, infer |-> "ok", raw |-> <<SP, "heard">>]

\* the ffmpeg check left out
transcribe_try_NoFfmpegCheck(audio_file_path, fs, wm, b) ==
    IF ~Exists(fs, audio_file_path)
    THEN [raised |-> FALSE, ret |-> EmptyStr, invoked |-> FALSE]
    ELSE IF wm = "None"
    THEN [raised |-> FALSE, ret |-> EmptyStr, invoked |-> FALSE]
    ELSE IF b.infer = "raise"
    THEN [raised |-> TRUE, invoked |-> TRUE]
    ELSE [raised |-> FALSE, ret |-> Strip(b.raw), invoked |-> TRUE]

\* the file-existence check left out
transcribe_try_NoExistsCheck(audio_file_path, fs, wm, b) ==
    IF wm = "None"
    THEN [raised |-> FALSE, ret |-> EmptyStr, invoked |-> FALSE]
    ELSE IF ~b.ffmpeg
    THEN [raised |-> FALSE, ret |-> EmptyStr, invoked |-> FALSE]
    ELSE IF b.infer = "raise"
    THEN [raised |-> TRUE, invoked |-> TRUE]
    ELSE [raised |-> FALSE, ret |-> Strip(b.raw), invoked |-> TRUE]

transcribe_try(audio_file_path, fs, wm, b) ==
    IF ~Exists(fs, audio_file_path)
    THEN [raised |-> FALSE, ret |-> EmptyStr, invoked |-> FALSE]
    ELSE IF wm = "None"
    THEN [raised |-> FALSE, ret |-> EmptyStr, invoked |-> FALSE]
    ELSE IF ~b.ffmpeg
    THEN [raised |-> FALSE, ret |-> EmptyStr, invoked |-> FALSE]
    ELSE IF b.infer = "raise"
    THEN [raised |-> TRUE, invoked |-> TRUE]
    ELSE [raised |-> FALSE, ret |-> Strip(b.raw), invoked |-> TRUE]

transcribe_hebrew_audio_to_text_impl(audio_file_path, fs, wm, b) ==
    LET r == transcribe_try(audio_file_path, fs, wm, b)
    IN  IF ~r.raised THEN r
        ELSE [raised |-> FALSE, ret |-> EmptyStr, invoked |-> r.invoked]

----------------------------------------------------------------------------
(* Session log store: tools/transcript_tool.py *)

\* a write to a log file either happens or raises an I/O error
IoBehaviours == {"ok", "ioerror"}

TranscriptHeader == [kind |-> "header", title |-> "HEBREW CALL CENTER TRANSCRIPT"]
CallLogHeader == [kind |-> "header", title |-> "CALL CENTER SYSTEM LOG"]

\* what a previous run left in a log file
Stale == <<[kind |-> "stale"]>>

\* the I/O error let through
log_conversation_step_impl_Raises(tr, step_number, speaker, original_text, nikud, audio, transcribed, b) ==
    IF b = "ioerror"
    THEN [raised |-> TRUE, transcript |-> tr]
    ELSE [raised |-> FALSE, ret |-> "Successfully logged step",
          transcript |-> Append(tr,
              [kind |-> "step", step_number |-> step_number,
               speaker |-> speaker, original_text |-> original_text,
               nikud_text |-> nikud, audio_file |-> audio,
               transcribed_text |-> transcribed])]

log_conversation_step_impl(tr, step_number, speaker, original_text, nikud, audio, transcribed, b) ==
    IF b = "ioerror"
    THEN [raised |-> FALSE, ret |-> "[TRANSCRIPT ERROR]", transcript |-> tr]
    ELSE [raised |-> FALSE, ret |-> "Successfully logged step",
          transcript |-> Append(tr,
              [kind |-> "step", step_number |-> step_number,
               speaker |-> speaker, original_text |-> original_text,
               nikud_text |-> nikud, audio_file |-> audio,
               transcribed_text |-> transcribed])]

\* the summary written twice
create_call_summary_impl_Twice(tr, total_steps, outcome, customer_satisfaction, issues_resolved, additional_notes, b) ==
    IF b = "ioerror"
    THEN [raised |-> FALSE, ret |-> "[SUMMARY ERROR]", transcript |-> tr]
    ELSE [raised |-> FALSE, ret |-> "Call summary created successfully",
          transcript |-> tr \o
              LET e == [kind |-> "summary", total_steps |-> total_steps,
                        outcome |-> outcome,
                        customer_satisfaction |-> customer_satisfaction,
                        issues_resolved |-> IF issues_resolved THEN "Yes"
                                            ELSE "No",
                        additional_notes |-> additional_notes]
              IN  <<e, e>>]

create_call_summary_impl(tr, total_steps, outcome, customer_satisfaction, issues_resolved, additional_notes, b) ==
    IF b = "ioerror"
    THEN [raised |-> FALSE, ret |-> "[SUMMARY ERROR]", transcript |-> tr]
    ELSE [raised |-> FALSE, ret |-> "Call summary created successfully",
          transcript |-> Append(tr,
              [kind |-> "summary", total_steps |-> total_steps,
               outcome |-> outcome,
               customer_satisfaction |-> customer_satisfaction,
               issues_resolved |-> IF issues_resolved THEN "Yes" ELSE "No",
               additional_notes |-> additional_notes])]

\* the I/O error of the event log let through
log_system_event_impl_Raises(cl, event_type, message, data, b) ==
    IF b = "ioerror"
    THEN [raised |-> TRUE, call_log |-> cl]
    ELSE [raised |-> FALSE, ret |-> "System event logged successfully",
          call_log |-> Append(cl,
              [kind |-> "event", event_type |-> event_type,
               message |-> message, data |-> data])]

\* the data argument not written
log_system_event_impl_NoData(cl, event_type, message, data, b) ==
    IF b = "ioerror"
    THEN [raised |-> FALSE, ret |-> "[SYSTEM LOG ERROR]", call_log |-> cl]
    ELSE [raised |-> FALSE, ret |-> "System event logged successfully",
          call_log |-> Append(cl,
              [kind |-> "event", event_type |-> event_type,
               message |-> message, data |-> [absent |-> TRUE]])]

log_system_event_impl(cl, event_type, message, data, b) ==
    IF b = "ioerror"
    THEN [raised |-> FALSE, ret |-> "[SYSTEM LOG ERROR]", call_log |-> cl]
    ELSE [raised |-> FALSE, ret |-> "System event logged successfully",
          call_log |-> Append(cl,
              [kind |-> "event", event_type |-> event_type,
               message |-> message, data |-> data])]

\* the two files are opened for writing one after the other; an I/O error
\* at the first leaves both untouched, at the second only the call log
InitBehaviours == {"ok", "ioerror_transcript", "ioerror_call_log"}

\* the files opened for appending
initialize_call_session_impl_Append(tr, cl, b) ==
    IF b = "ioerror_transcript"
    THEN [raised |-> FALSE, ret |-> "[INIT ERROR]",
          transcript |-> tr, call_log |-> cl]
    ELSE IF b = "ioerror_call_log"
    THEN [raised |-> FALSE, ret |-> "[INIT ERROR]",
          transcript |-> Append(tr, TranscriptHeader), call_log |-> cl]
    ELSE [raised |-> FALSE, ret |-> "Call session initialized successfully",
          transcript |-> Append(tr, TranscriptHeader),
          call_log |-> Append(cl, CallLogHeader)]

initialize_call_session_impl(tr, cl, b) ==
    IF b = "ioerror_transcript"
    THEN [raised |-> FALSE, ret |-> "[INIT ERROR]",
          transcript |-> tr, call_log |-> cl]
    ELSE IF b = "ioerror_call_log"
    THEN [raised |-> FALSE, ret |-> "[INIT ERROR]",
          transcript |-> <<TranscriptHeader>>, call_log |-> cl]
    ELSE [raised |-> FALSE, ret |-> "Call session initialized successfully",
          transcript |-> <<TranscriptHeader>>,
          call_log |-> <<CallLogHeader>>]

----------------------------------------------------------------------------
(* HebrewCallCenterCrew: crew.py *)

DefaultMaxTurns == 6

\* MAX_CONVERSATION_TURNS in the environment: unset, an integer, or a string
\* that int() rejects
EnvTurns ==
    {[set |-> FALSE, valid |-> TRUE, value |-> 0],
     [set |-> TRUE, valid |-> FALSE, value |-> 0]}
    \cup {[set |-> TRUE, valid |-> TRUE, value |-> k] : k \in Caps}

Cost(nominal) == IF nominal THEN 0 ELSE 1

Affordable(nominal) == faults + Cost(nominal) <= MaxFaults

NoSession == [status |-> "none"]

Running == -1

Init ==
    /\ pc = "main"
    /\ max_turns = 0
    /\ script = <<>>
    /\ i = 0
    /\ nikud_text = EmptyStr
    /\ audio_file = EmptyStr
    /\ transcribed_text = EmptyStr
    /\ error_msg = EmptyStr
    /\ results = <<>>
    /\ session = NoSession
    /\ transcript = Stale
    /\ call_log = Stale
    /\ files = {}
    /\ chatterbox_model = "None"
    /\ torch_load = "patched"
    /\ whisper_model \in {"None", "loaded"}
    /\ last = [op |-> "none"]
    /\ calls = <<>>
    /\ faults = 0
    /\ api_key \in BOOLEAN
    /\ exit_code = Running
    /\ runs = 0
    /\ resets = 0
    /\ io_failed = {}

\* the credential not looked at
check_prerequisites_NoKeyCheck(key) == TRUE

\* main.py 36-67: False without OPENAI_API_KEY; else the directories are
\* created, a missing model is only warned about, and the result is True
check_prerequisites(key) == key

\* main(), up to the call of run_hebrew_call_simulation
CheckPrerequisites ==
    /\ pc = "main"
    /\ last' = [op |-> "prereq", ret |-> check_prerequisites(api_key)]
    /\ IF check_prerequisites(api_key)
       THEN pc' = "construct" /\ UNCHANGED exit_code
       ELSE pc' = "exited" /\ exit_code' = 1
    /\ UNCHANGED <<max_turns, script, i, nikud_text, audio_file,
                   transcribed_text, error_msg, results, session, transcript,
                   call_log, files, chatterbox_model, torch_load,
                   whisper_model, calls, faults, api_key, runs, resets, io_failed>>

\* HebrewCallCenterCrew.__init__: int() of the cap, then the session reset
crew_init(e, tr, cl, b) ==
    IF ~e.valid
    THEN [raised |-> TRUE, transcript |-> tr, call_log |-> cl]
    ELSE [raised |-> FALSE,
          max_turns |-> IF e.set THEN e.value ELSE DefaultMaxTurns]
         @@ initialize_call_session_impl(tr, cl, b)

\* crew_instance = HebrewCallCenterCrew(), in run_hebrew_call_simulation
Construct ==
    /\ pc = "construct"
    /\ \E e \in EnvTurns, b \in InitBehaviours :
          LET r == crew_init(e, transcript, call_log, b)
          IN  /\ Affordable(b = "ok")
              /\ faults' = faults + Cost(b = "ok")
              /\ io_failed' = IF r.raised \/ b = "ok" THEN io_failed
                              ELSE io_failed \cup {"init"}
              /\ transcript' = r.transcript
              /\ call_log' = r.call_log
              /\ IF r.raised
                 THEN /\ pc' = "harness_except"
                      /\ UNCHANGED max_turns
                      /\ last' = [op |-> "construct", raised |-> TRUE]
                 ELSE /\ pc' = "idle"
                      /\ max_turns' = r.max_turns
                      /\ last' = [op |-> "init", b |-> b, ret |-> r.ret,
                                  raised |-> FALSE, streak |-> 1,
                                  residue |-> <<Len(transcript),
                                                Len(call_log)>>]
    /\ UNCHANGED <<script, i, nikud_text, audio_file, transcribed_text,
                   error_msg, results, session, files, chatterbox_model,
                   torch_load, whisper_model, calls,
                   api_key, exit_code, runs, resets>>

\* the initialize_call_session tool, called between sessions. last.streak
\* counts the resets made in a row, last.residue the lengths of the two
\* stores before the first of them.
InitializeCallSession ==
    /\ pc \in {"idle", "done"}
    /\ resets < MaxResets
    /\ resets' = resets + 1
    /\ \E b \in InitBehaviours :
          LET r == initialize_call_session_impl(transcript, call_log, b)
          IN  /\ Affordable(b = "ok")
              /\ faults' = faults + Cost(b = "ok")
              /\ io_failed' = IF b = "ok" THEN io_failed
                              ELSE io_failed \cup {"init"}
              /\ transcript' = r.transcript
              /\ call_log' = r.call_log
              /\ last' = [op |-> "init", b |-> b, ret |-> r.ret,
                          raised |-> r.raised,
                          streak |-> IF last.op = "init"
                                     THEN last.streak + 1 ELSE 1,
                          residue |-> IF last.op = "init"
                                      THEN last.residue
                                      ELSE <<Len(transcript),
                                             Len(call_log)>>]
    /\ UNCHANGED <<pc, max_turns, script, i, nikud_text, audio_file,
                   transcribed_text, error_msg, results, session, files,
                   chatterbox_model, torch_load, whisper_model, calls,
                   api_key, exit_code, runs>>

\* run_conversation_simulation, up to the first turn
SessionStart ==
    /\ runs' = runs + 1
    /\ script' = PySlice(conversation_script, max_turns)
    /\ results' = <<>>
    /\ session' = NoSession
    /\ calls' = <<>>
    /\ IF Len(script') > 0
       THEN i' = 1 /\ pc' = "nikud"
       ELSE i' = 0 /\ pc' = "summary"
    /\ last' = [op |-> "run"]
    /\ UNCHANGED <<max_turns, nikud_text, audio_file, transcribed_text,
                   error_msg, transcript, call_log, files, chatterbox_model,
                   torch_load, whisper_model, faults,
                   api_key, exit_code, resets, io_failed>>

\* crew_instance.run_conversation_simulation() on the crew just constructed
RunStart ==
    /\ pc = "idle"
    /\ SessionStart

\* run_conversation_simulation() called again on the same crew instance
RunAgain ==
    /\ pc = "done"
    /\ runs < MaxRuns
    /\ SessionStart

ErrorMessage(step_num) == <<"Error processing message ", ToStr(step_num), ": ", "e">>

\* process_hebrew_message, step 1
AddNikud ==
    /\ pc = "nikud"
    /\ \E b \in NikudBehaviours(script[i].text), esc \in BOOLEAN :
          LET text == script[i].text
              nominal == ~esc /\ b = NominalNikud(text)
              r == IF esc THEN [raised |-> TRUE]
                   ELSE add_nikud_to_hebrew_text_impl(text, b)
          IN  /\ Affordable(nominal)
              /\ faults' = faults + Cost(nominal)
              /\ last' = [op |-> "nikud", step |-> i, arg |-> text,
                          b |-> b, esc |-> esc] @@ r
              /\ IF r.raised
                 THEN /\ pc' = "except"
                      /\ error_msg' = ErrorMessage(i)
                      /\ UNCHANGED nikud_text
                 ELSE /\ pc' = "tts"
                      /\ nikud_text' = r.ret
                      /\ UNCHANGED error_msg
    /\ calls' = Append(calls, [op |-> "nikud", step |-> i,
                                load |-> ~last'.esc /\ last'.load_attempted,
                                arg |-> last'.arg, raised |-> last'.raised,
                                ret |-> IF last'.raised THEN EmptyStr
                                        ELSE last'.ret])
    /\ UNCHANGED <<max_turns, script, i, audio_file, transcribed_text,
                   results, session, transcript, call_log, files,
                   chatterbox_model, torch_load, whisper_model,
                   api_key, exit_code, runs, resets, io_failed>>

\* process_hebrew_message, step 2
ConvertToSpeech ==
    /\ pc = "tts"
    /\ \E b \in TtsBehaviours, esc \in BOOLEAN :
          LET nominal == ~esc /\ b = NominalTts
              r == IF esc
                   THEN [raised |-> TRUE, files |-> files,
                         model |-> chatterbox_model, torch |-> torch_load]
                   ELSE convert_hebrew_text_to_speech_impl(
                            nikud_text, Given(i), chatterbox_model,
                            torch_load, files, b)
          IN  /\ Affordable(nominal)
              /\ faults' = faults + Cost(nominal)
              /\ last' = [op |-> "tts", step |-> i, arg |-> nikud_text,
                          step_arg |-> Given(i), b |-> b, esc |-> esc] @@ r
              /\ files' = r.files
              /\ chatterbox_model' = r.model
              /\ torch_load' = r.torch
              /\ IF r.raised
                 THEN /\ pc' = "except"
                      /\ error_msg' = ErrorMessage(i)
                      /\ UNCHANGED audio_file
                 ELSE /\ pc' = "stt"
                      /\ audio_file' = r.ret
                      /\ UNCHANGED error_msg
    /\ calls' = Append(calls, [op |-> "tts", step |-> i,
                                load |-> ~last'.esc /\ last'.load_attempted,
                                arg |-> last'.arg, arg_step |-> last'.step,
                                raised |-> last'.raised,
                                ret |-> IF last'.raised THEN EmptyStr
                                        ELSE last'.ret])
    /\ UNCHANGED <<max_turns, script, i, nikud_text, transcribed_text,
                   results, session, transcript, call_log, whisper_model,
                   api_key, exit_code, runs, resets, io_failed>>

\* the fallback going straight to the original text
FallbackText_OriginalOnly(stt_text, nikud, text) ==
    IF ~Truthy(stt_text) \/ ~Truthy(Strip(stt_text)) THEN text ELSE stt_text

\* crew.py 210-211: the fallback when STT produced no text
FallbackText(stt_text, nikud, text) ==
    IF ~Truthy(stt_text) \/ ~Truthy(Strip(stt_text))
    THEN (IF Truthy(nikud) THEN nikud ELSE text)
    ELSE stt_text

\* process_hebrew_message, step 3 and the fallback
Transcribe ==
    /\ pc = "stt"
    /\ \E b \in SttBehaviours, esc \in BOOLEAN :
          LET nominal == ~esc /\ b = NominalStt
              r == IF esc THEN [raised |-> TRUE]
                   ELSE transcribe_hebrew_audio_to_text_impl(
                            audio_file, files, whisper_model, b)
          IN  /\ Affordable(nominal)
              /\ faults' = faults + Cost(nominal)
              /\ last' = [op |-> "stt", step |-> i, arg |-> audio_file,
                          b |-> b, esc |-> esc] @@ r
              /\ IF r.raised
                 THEN /\ pc' = "except"
                      /\ error_msg' = ErrorMessage(i)
                      /\ UNCHANGED transcribed_text
                 ELSE /\ pc' = "log"
                      /\ transcribed_text' =
                             FallbackText(r.ret, nikud_text, script[i].text)
                      /\ UNCHANGED error_msg
    /\ calls' = Append(calls, [op |-> "stt", step |-> i, load |-> FALSE,
                                arg |-> last'.arg, raised |-> last'.raised,
                                ret |-> IF last'.raised THEN EmptyStr
                                        ELSE last'.ret])
    /\ UNCHANGED <<max_turns, script, i, nikud_text, audio_file, results,
                   session, transcript, call_log, files, chatterbox_model,
                   torch_load, whisper_model,
                   api_key, exit_code, runs, resets, io_failed>>

SuccessResult(text, nikud, audio, transcribed) ==
    [original |-> text, nikud |-> nikud, audio_file |-> audio,
     transcribed |-> transcribed, status |-> "success"]

\* the failed result keeping the fields of the stages that had run
FailedResult_Partial(text, msg) ==
    [original |-> text, nikud |-> EmptyStr, error |-> msg,
     status |-> "failed"]

FailedResult(text, msg) ==
    [original |-> text, error |-> msg, status |-> "failed"]

\* the break left out
Continue_NoBreak(result, idx, scr) == idx < Len(scr)

\* crew.py 264-269: append the result, break on a failed one
Continue(result, idx, scr) == result.status # "failed" /\ idx < Len(scr)

\* a turn left out
NextStep_Skip(idx) == idx + 2

\* crew.py 258: enumerate(..., 1) hands out consecutive step numbers
NextStep(idx) == idx + 1

FatalMessage == <<"Fatal error in conversation simulation: ", "e">>

NoData == [absent |-> TRUE]

\* process_hebrew_message, step 4 and the return; back in the loop,
\* results.append and the break test. loop_esc is an exception raised by
\* the loop's own statements once the message has returned.
LogStep ==
    /\ pc = "log"
    /\ \E b \in IoBehaviours, esc \in BOOLEAN, loop_esc \in BOOLEAN :
          LET nominal == ~esc /\ ~loop_esc /\ b = "ok"
              r == IF esc THEN [raised |-> TRUE, transcript |-> transcript]
                   ELSE log_conversation_step_impl(
                            transcript, i, script[i].speaker, script[i].text,
                            nikud_text, audio_file, transcribed_text, b)
              result == SuccessResult(script[i].text, nikud_text, audio_file,
                                      transcribed_text)
          IN  /\ esc => ~loop_esc
              /\ Affordable(nominal)
              /\ faults' = faults + Cost(nominal)
              /\ last' = [op |-> "log", step |-> i, b |-> b, esc |-> esc,
                          loop_esc |-> loop_esc] @@ r
              /\ io_failed' = IF esc \/ b = "ok" THEN io_failed
                              ELSE io_failed \cup {"log"}
              /\ transcript' = r.transcript
              /\ IF r.raised
                 THEN /\ pc' = "except"
                      /\ error_msg' = ErrorMessage(i)
                      /\ UNCHANGED <<results, i, nikud_text, audio_file,
                                     transcribed_text>>
                 ELSE /\ nikud_text' = EmptyStr
                      /\ audio_file' = EmptyStr
                      /\ transcribed_text' = EmptyStr
                      /\ IF loop_esc
                         THEN /\ pc' = "fatal"
                              /\ error_msg' = FatalMessage
                              /\ UNCHANGED <<results, i>>
                         ELSE /\ results' = Append(results, result)
                              /\ UNCHANGED error_msg
                              /\ IF Continue(result, i, script)
                                 THEN i' = NextStep(i) /\ pc' = "nikud"
                                 ELSE i' = i /\ pc' = "summary"
    /\ calls' = Append(calls, [op |-> "log", step |-> i,
                                raised |-> last'.raised])
    /\ UNCHANGED <<max_turns, script, session, call_log, files,
                   chatterbox_model, torch_load, whisper_model,
                   api_key, exit_code, runs, resets>>

\* process_hebrew_message, the except branch and its return; back in the
\* loop, results.append and the break test
HandleError ==
    /\ pc = "except"
    /\ \E b \in IoBehaviours, loop_esc \in BOOLEAN :
          LET r == log_system_event_impl(
                       call_log, "ERROR", error_msg,
                       [step |-> i, speaker |-> script[i].speaker], b)
              result == FailedResult(script[i].text, error_msg)
              nominal == ~loop_esc
          IN  /\ Affordable(nominal)
              /\ faults' = faults + Cost(nominal)
              /\ last' = [op |-> "event", step |-> i, b |-> b,
                          loop_esc |-> loop_esc] @@ r
              /\ io_failed' = IF b = "ok" THEN io_failed
                              ELSE io_failed \cup {"event"}
              /\ call_log' = r.call_log
              /\ IF loop_esc \/ r.raised
                 THEN /\ pc' = "fatal"
                      /\ error_msg' = FatalMessage
                      /\ UNCHANGED <<results, i>>
                 ELSE /\ results' = Append(results, result)
                      /\ error_msg' = EmptyStr
                      /\ IF Continue(result, i, script)
                         THEN i' = NextStep(i) /\ pc' = "nikud"
                         ELSE i' = i /\ pc' = "summary"
    /\ nikud_text' = EmptyStr
    /\ audio_file' = EmptyStr
    /\ transcribed_text' = EmptyStr
    /\ UNCHANGED <<max_turns, script, session, transcript, files,
                   chatterbox_model, torch_load, whisper_model, calls,
                   api_key, exit_code, runs, resets>>

\* run_conversation_simulation, the except branch and its return; esc is an
\* exception raised inside that branch, which leaves the method
HandleFatal ==
    /\ pc = "fatal"
    /\ \E b \in IoBehaviours, esc \in BOOLEAN :
          LET r == log_system_event_impl(
                       call_log, "FATAL_ERROR", error_msg, NoData, b)
          IN  /\ io_failed' = IF esc \/ b = "ok" THEN io_failed
                              ELSE io_failed \cup {"event"}
              /\ IF esc
                 THEN /\ pc' = "harness_except"
                      /\ last' = [op |-> "fatal", raised |-> TRUE,
                                  esc |-> TRUE]
                      /\ UNCHANGED <<call_log, session>>
                 ELSE IF r.raised
                 THEN /\ pc' = "harness_except"
                      /\ last' = [op |-> "fatal", b |-> b, esc |-> FALSE] @@ r
                      /\ call_log' = r.call_log
                      /\ UNCHANGED session
                 ELSE /\ pc' = "done"
                      /\ last' = [op |-> "fatal", b |-> b, esc |-> FALSE] @@ r
                      /\ call_log' = r.call_log
                      /\ session' = [status |-> "failed",
                                     error |-> error_msg]
    /\ error_msg' = EmptyStr
    /\ UNCHANGED <<max_turns, script, i, nikud_text, audio_file,
                   transcribed_text, results, transcript, files,
                   chatterbox_model, torch_load, whisper_model, calls,
                   faults, api_key, exit_code, runs, resets>>

\* every result counted, whatever its status
CountSuccess_All(rs) == Len(rs)

RECURSIVE CountSuccess(_)
CountSuccess(rs) ==
    IF rs = <<>> THEN 0
    ELSE (IF Head(rs).status = "success" THEN 1 ELSE 0) + CountSuccess(Tail(rs))

OutcomeThreshold == 4

\* > for >=
Outcome_Strict(successful_steps) ==
    IF successful_steps > OutcomeThreshold
    THEN "Cancellation processed" ELSE "Call incomplete"

Outcome(successful_steps) ==
    IF successful_steps >= OutcomeThreshold
    THEN "Cancellation processed" ELSE "Call incomplete"

\* resolved only when all six turns went through
IssuesResolved_AllSix(successful_steps) == successful_steps >= 6

\* crew.py 278-279: the test behind customer_satisfaction and issues_resolved
IssuesResolved(successful_steps) == successful_steps >= OutcomeThreshold

\* a failed message turning the whole session into a failed one
CompletedSession_FailOnFailed(rs, successful_steps, outcome) ==
    IF \E k \in 1..Len(rs) : rs[k].status = "failed"
    THEN [status |-> "failed", error |-> rs[Len(rs)].error]
    ELSE [status |-> "completed", total_steps |-> Len(rs),
          successful_steps |-> successful_steps, outcome |-> outcome,
          results |-> rs]

\* crew.py 285-291: the dictionary returned after the loop
CompletedSession(rs, successful_steps, outcome) ==
    [status |-> "completed", total_steps |-> Len(rs),
     successful_steps |-> successful_steps, outcome |-> outcome,
     results |-> rs]

\* run_conversation_simulation after the loop: the summary and the return
Summarize ==
    /\ pc = "summary"
    /\ \E b \in IoBehaviours :
          LET successful_steps == CountSuccess(results)
              outcome == Outcome(successful_steps)
              r == create_call_summary_impl(
                       transcript, Len(results), outcome,
                       IF IssuesResolved(successful_steps)
                       THEN "Resolved" ELSE "Unresolved",
                       IssuesResolved(successful_steps),
                       <<successful_steps, Len(results)>>, b)
          IN  /\ Affordable(b = "ok")
              /\ faults' = faults + Cost(b = "ok")
              /\ last' = [op |-> "summary", b |-> b] @@ r
              /\ io_failed' = IF b = "ok" THEN io_failed
                              ELSE io_failed \cup {"summary"}
              /\ transcript' = r.transcript
              /\ session' = CompletedSession(results, successful_steps,
                                              outcome)
    /\ pc' = "done"
    /\ UNCHANGED <<max_turns, script, i, nikud_text, audio_file,
                   transcribed_text, error_msg, results, call_log, files,
                   chatterbox_model, torch_load, whisper_model, calls,
                   api_key, exit_code, runs, resets>>

\* the except branch of run_hebrew_call_simulation left out
run_hebrew_call_simulation_NoCatch(inner_raised) == [raised |-> inner_raised]

\* main.py 78-126: whatever the try block raises is caught and printed
run_hebrew_call_simulation(inner_raised) == [raised |-> FALSE]

\* main.py 158-167: sys.exit(1) on an exception, else the interpreter's
\* normal exit
main_exit(sim_raised) == IF sim_raised THEN 1 ELSE 0

\* run_hebrew_call_simulation from the session's return on, and the end of
\* main
Report ==
    /\ pc \in {"done", "harness_except"}
    /\ exit_code' =
           main_exit(run_hebrew_call_simulation(pc = "harness_except").raised)
    /\ pc' = "exited"
    /\ last' = [op |-> "report", raised |-> pc = "harness_except"]
    /\ UNCHANGED <<max_turns, script, i, nikud_text, audio_file,
                   transcribed_text, error_msg, results, session, transcript,
                   call_log, files, chatterbox_model, torch_load,
                   whisper_model, calls, faults, api_key, runs, resets, io_failed>>

\* one process started through main.py: one crew, one session
Next ==
    \/ CheckPrerequisites
    \/ Construct
    \/ RunStart
    \/ AddNikud
    \/ ConvertToSpeech
    \/ Transcribe
    \/ LogStep
    \/ HandleError
    \/ HandleFatal
    \/ Summarize
    \/ Report

Spec == Init /\ [][Next]_vars

\* caps of the crew instances that are used for more than one session
ReuseCaps == {1, 2}

\* a caller that holds one crew instance, freshly constructed, and calls
\* run_conversation_simulation and the initialize_call_session tool on it
InitReuse ==
    /\ pc = "idle"
    /\ max_turns \in ReuseCaps
    /\ script = <<>>
    /\ i = 0
    /\ nikud_text = EmptyStr
    /\ audio_file = EmptyStr
    /\ transcribed_text = EmptyStr
    /\ error_msg = EmptyStr
    /\ results = <<>>
    /\ session = NoSession
    /\ transcript = <<TranscriptHeader>>
    /\ call_log = <<CallLogHeader>>
    /\ files = {}
    /\ chatterbox_model = "None"
    /\ torch_load = "patched"
    /\ whisper_model \in {"None", "loaded"}
    /\ last = [op |-> "init", b |-> "ok",
               ret |-> "Call session initialized successfully",
               raised |-> FALSE, streak |-> 1, residue |-> <<0, 0>>]
    /\ calls = <<>>
    /\ faults = 0
    /\ api_key = TRUE
    /\ exit_code = Running
    /\ runs = 0
    /\ resets = 0
    /\ io_failed = {}

NextReuse ==
    \/ RunStart
    \/ RunAgain
    \/ InitializeCallSession
    \/ AddNikud
    \/ ConvertToSpeech
    \/ Transcribe
    \/ LogStep
    \/ HandleError
    \/ HandleFatal
    \/ Summarize

SpecReuse == InitReuse /\ [][NextReuse]_vars

\* step_number arguments of the tool calls made outside a session
StepArgs == {NoStep} \cup {Given(n) : n \in {-1, 0, 1, 2}}

ToolText == <<"text">>

\* a process that has imported the tools and calls them one by one, as an
\* agent does, without running a session
InitTools ==
    /\ pc = "tool"
    /\ max_turns = 0
    /\ script = <<>>
    /\ i = 0
    /\ nikud_text = EmptyStr
    /\ audio_file = EmptyStr
    /\ transcribed_text = EmptyStr
    /\ error_msg = EmptyStr
    /\ results = <<>>
    /\ session = NoSession
    /\ transcript = Stale
    /\ call_log = Stale
    /\ files = {}
    /\ chatterbox_model = "None"
    /\ torch_load = "patched"
    /\ whisper_model \in {"None", "loaded"}
    /\ last = [op |-> "none"]
    /\ calls = <<>>
    /\ faults = 0
    /\ api_key = TRUE
    /\ exit_code = Running
    /\ runs = 0
    /\ resets = 0
    /\ io_failed = {}

\* the hebrew_tts_tool: convert_hebrew_text_to_speech(text, step_number)
CallTtsTool ==
    /\ pc = "tool"
    /\ Len(calls) < MaxToolCalls
    /\ \E step_number \in StepArgs, b \in TtsBehaviours :
          LET r == convert_hebrew_text_to_speech_impl(
                       ToolText, step_number, chatterbox_model, torch_load,
                       files, b)
          IN  /\ last' = [op |-> "tts", step |-> step_number.n,
                          arg |-> ToolText, step_arg |-> step_number,
                          b |-> b, esc |-> FALSE] @@ r
              /\ files' = r.files
              /\ chatterbox_model' = r.model
              /\ torch_load' = r.torch
              /\ calls' = Append(calls, [op |-> "tts", step |-> step_number.n,
                                          load |-> r.load_attempted,
                                          arg |-> ToolText,
                                          arg_step |-> step_number.n,
                                          raised |-> r.raised,
                                          ret |-> r.ret])
    /\ UNCHANGED <<pc, max_turns, script, i, nikud_text, audio_file,
                   transcribed_text, error_msg, results, session, transcript,
                   call_log, whisper_model, faults, api_key, exit_code, runs,
                   resets, io_failed>>

NextTools == CallTtsTool

SpecTools == InitTools /\ [][NextTools]_vars

----------------------------------------------------------------------------
(* Properties *)

Failed(rs) == {k \in 1..Len(rs) : rs[k].status = "failed"}
Succeeded(rs) == {k \in 1..Len(rs) : rs[k].status = "success"}

\* C1: every result with status success carries a transcribed text that is
\* neither empty nor whitespace-only.
C1_SuccessTranscribedNonBlank ==
    \A k \in Succeeded(results) : ~IsBlank(results[k].transcribed)

\* C2: once the message of turn k has failed, results has exactly k entries,
\* the loop is over, and no stage call or step-log call was made for a later
\* turn.
C2_EarlyStop ==
    \A k \in Failed(results) :
        /\ Len(results) = k
        /\ pc \in {"summary", "done", "exited"}
        /\ \A c \in 1..Len(calls) : calls[c].step <= k
        /\ session.status = "completed" => Len(session.results) = k

C2_Witness ==
    /\ pc = "done"
    /\ Len(results) = 2
    /\ results[2].status = "failed"
    /\ Len(script) > 2
    /\ calls[Len(calls)].step = 2

\* C3 as stated: a session with cap k processes at most k turns, and exactly
\* k when no message fails.
C3_TurnCapAsStated ==
    pc = "done" /\ session.status = "completed" =>
        /\ Len(results) <= max_turns
        /\ Failed(results) = {} => Len(results) = max_turns

\* the number of lines of the 6-line script that the cap k lets through
Allowed(k) == IF k >= 0 THEN (IF k < 6 THEN k ELSE 6)
              ELSE (IF 6 + k > 0 THEN 6 + k ELSE 0)

\* C3 amended: a session with cap k processes at most Allowed(k) turns, and
\* exactly Allowed(k) when no message fails: min(k, 6) for k >= 0, and
\* max(6 + k, 0) for k < 0.
C3_TurnCap ==
    pc \notin {"main", "construct", "idle", "harness_except"}
        /\ (pc = "exited" => session.status # "none") =>
        /\ Len(results) <= Allowed(max_turns)
        /\ i <= Allowed(max_turns)
        /\ pc = "done" /\ session.status = "completed"
               /\ Failed(results) = {} =>
               Len(results) = Allowed(max_turns)

C3_Witness ==
    /\ pc = "done"
    /\ max_turns = 3
    /\ Len(results) = 3
    /\ Failed(results) = {}

\* C4: a completed session's outcome is "Cancellation processed" exactly when
\* successful_steps >= 4 and "Call incomplete" otherwise, and the summary
\* entry written to the transcript carries the same outcome.
C4_OutcomeThreshold ==
    session.status = "completed" =>
        /\ session.successful_steps \in 0..6
        /\ session.successful_steps >= 4 =>
               session.outcome = "Cancellation processed"
        /\ session.successful_steps < 4 => session.outcome = "Call incomplete"
        /\ last.op = "summary" /\ last.b = "ok" =>
               /\ transcript[Len(transcript)].kind = "summary"
               /\ transcript[Len(transcript)].outcome = session.outcome

C4_Witness ==
    /\ session.status = "completed"
    /\ session.successful_steps = 4
    /\ session.outcome = "Cancellation processed"
    /\ transcript[Len(transcript)].kind = "summary"

\* C5: after the transcription stage returned, transcribed is the stage's
\* text when that is non-blank; otherwise it is nikud_text when nikud_text is
\* non-empty and the original text when it is empty.
C5_FallbackValue ==
    pc = "log" /\ last.op = "stt" =>
        /\ ~IsBlank(last.ret) => transcribed_text = last.ret
        /\ IsBlank(last.ret) /\ nikud_text # <<>> =>
               transcribed_text = nikud_text
        /\ IsBlank(last.ret) /\ nikud_text = <<>> =>
               transcribed_text = script[i].text

\* the second fallback: transcription and diacritization both came back
\* empty, and the original text is taken
C5_Witness ==
    /\ pc = "log" /\ last.op = "stt"
    /\ last.ret = <<>>
    /\ nikud_text = <<>>
    /\ transcribed_text = script[i].text

\* C6: a completed session's total_steps is the length of results and its
\* successful_steps the number of success entries; without a failed message
\* both equal the number of turns of the (capped) script.
C6_Aggregation ==
    session.status = "completed" =>
        /\ session.total_steps = Len(session.results)
        /\ session.successful_steps = Cardinality(Succeeded(session.results))
        /\ Failed(session.results) = {} =>
               /\ session.total_steps = Len(script)
               /\ session.successful_steps = Len(script)

C6_Witness ==
    /\ session.status = "completed"
    /\ session.total_steps = 6
    /\ session.successful_steps = 6
    /\ session.outcome = "Cancellation processed"

\* C7: whatever the engine and the fallback writer do, the synthesis stage
\* returns without raising, and the message goes on to transcription.
C7_SynthesisNeverRaises ==
    last.op = "tts" /\ ~last.esc =>
        /\ ~last.raised
        /\ pc = "stt"
        /\ audio_file = last.ret

C7_Witness ==
    /\ last.op = "tts" /\ ~last.esc
    /\ last.b.load = "raise" /\ last.b.fallback = "raise"
    /\ pc = "stt"

\* C8 as stated: the string the synthesis stage returns always names an
\* audio file that exists when the call returns.
C8_PathExistsAsStated ==
    last.op = "tts" /\ ~last.esc => Exists(files, last.ret)

IsSilentFallback(f) ==
    /\ f.kind = "silent"
    /\ f.nchannels = 1
    /\ f.framerate = 16000

\* C8 amended: the returned string names an existing file - the engine's
\* output on the primary path, a silent single-channel 16 kHz WAV whenever
\* the engine is unavailable or throws - unless the fallback writer itself
\* raises, in which case the return value is the error marker and names no
\* file.
C8_PathExists ==
    last.op = "tts" /\ ~last.esc =>
        /\ last.primary <=>
               /\ chatterbox_model = "loaded"
               /\ last.b.generate = "ok"
               /\ last.b.save = "ok"
        /\ last.primary =>
               \E f \in files : f.path = last.ret /\ f.kind = "speech"
        /\ ~last.primary /\ last.b.fallback = "ok" =>
               \E f \in files : f.path = last.ret /\ IsSilentFallback(f)
        /\ ~last.primary /\ last.b.fallback = "raise" =>
               last.ret = FallbackMarker /\ ~Exists(files, last.ret)

C8_Witness ==
    /\ last.op = "tts" /\ ~last.esc
    /\ last.b.generate = "raise" /\ last.b.fallback = "ok"
    /\ \E f \in files : f.path = last.ret /\ IsSilentFallback(f)

\* C9: the transcription stage never raises; it returns the empty string when
\* the audio path does not exist, the Whisper model is not loaded, ffmpeg is
\* missing or the model raises; the model is invoked only when the three
\* preconditions hold.
C9_TranscribeAbsorbs ==
    last.op = "stt" /\ ~last.esc =>
        LET pre == /\ Exists(files, last.arg)
                   /\ whisper_model # "None"
                   /\ last.b.ffmpeg
        IN  /\ ~last.raised
            /\ ~pre \/ last.b.infer = "raise" => last.ret = <<>>
            /\ last.invoked <=> pre

C9_Witness ==
    /\ last.op = "stt" /\ ~last.esc
    /\ last.invoked /\ last.b.infer = "raise"
    /\ last.ret = <<>>

\* C10: when the model path does not exist or the diacritization library
\* fails to load, whatever the error, the stage returns exactly its input.
C10_DegradesToIdentity ==
    last.op = "nikud" /\ ~last.esc =>
        (~last.b.path_exists \/ last.b.lib # "ok" => last.ret = last.arg)

SuccessFields == {"original", "nikud", "audio_file", "transcribed", "status"}
FailedFields == {"original", "error", "status"}

\* C11: every result is a success or a failed one; a failed result has
\* exactly the fields original, error and status, a success result exactly
\* original, nikud, audio_file, transcribed and status; so error is present
\* exactly when status is failed.
C11_ResultShape ==
    \A k \in 1..Len(results) :
        /\ results[k].status \in {"success", "failed"}
        /\ results[k].status = "failed" => DOMAIN results[k] = FailedFields
        /\ results[k].status = "success" => DOMAIN results[k] = SuccessFields
        /\ "error" \in DOMAIN results[k] <=> results[k].status = "failed"

C11_Witness ==
    /\ pc = "done"
    /\ Len(results) = 2
    /\ results[1].status = "success"
    /\ results[2].status = "failed"
    /\ "error" \in DOMAIN results[2]
    /\ "error" \notin DOMAIN results[1]

\* the session was left through the except branch of
\* run_conversation_simulation
Fatal == pc = "fatal"

C12_States ==
    /\ session.status \in {"none", "completed", "failed"}
    /\ Fatal => last.op \in {"log", "event"} /\ last.loop_esc
    /\ Failed(results) # {} =>
           /\ ~Fatal
           /\ session.status # "failed"
           /\ pc \in {"done", "exited"} =>
                  /\ session.status = "completed"
                  /\ session.results = results
                  /\ session.results[Len(results)].status = "failed"
           /\ last.op = "summary" /\ last.b = "ok" =>
                  /\ transcript[Len(transcript)].kind = "summary"
                  /\ transcript[Len(transcript)].total_steps = Len(results)

C12_Steps ==
    /\ session'.status = "failed" /\ session.status # "failed" => Fatal
    /\ Fatal' /\ ~Fatal => last'.loop_esc
    /\ pc = "except" /\ ~Fatal' => pc' = "summary"
    /\ pc = "summary" => pc' = "done" /\ session'.status = "completed"

\* C12: a session becomes failed only in the except branch of
\* run_conversation_simulation, which is entered only when a statement of the
\* turn loop itself raises; a message that returned status failed leads to
\* the summary, and the session returns status completed with that message
\* as the last entry of results, the call summary written.
C12_SessionStateMachine == []C12_States /\ [][C12_Steps]_vars

C12_Witness ==
    /\ pc = "done"
    /\ session.status = "completed"
    /\ Len(session.results) = 3
    /\ session.results[3].status = "failed"
    /\ last.op = "summary"
    /\ transcript[Len(transcript)].kind = "summary"

StepEntries(tr) == {k \in 1..Len(tr) : tr[k].kind = "step"}
SummaryEntries(tr) == {k \in 1..Len(tr) : tr[k].kind = "summary"}

\* C13: once a session run has started, the transcript holds the header,
\* then step entries of this run only (step numbers increasing, none above
\* the current turn), then at most the one summary of this run.
C13_TranscriptOfLastRun ==
    runs >= 1 /\ pc # "idle" =>
        /\ transcript[1].kind \in {"header", "stale"}
        /\ \A k \in StepEntries(transcript) :
               /\ transcript[k].step_number <= i
               /\ \A j \in StepEntries(transcript) :
                      j < k =>
                          transcript[j].step_number < transcript[k].step_number
        /\ Cardinality(SummaryEntries(transcript)) <= 1
        /\ \A k \in SummaryEntries(transcript) : k = Len(transcript)

C14_States ==
    last.op = "init" =>
        /\ last.b = "ok" => /\ transcript = <<TranscriptHeader>>
                            /\ call_log = <<CallLogHeader>>
        /\ last.b = "ioerror_call_log" => transcript = <<TranscriptHeader>>
        /\ ~last.raised
        /\ last.b = "ok" <=> last.ret = "Call session initialized successfully"

C14_Steps ==
    last'.op = "init" =>
        /\ last'.b = "ioerror_transcript" => UNCHANGED <<transcript, call_log>>
        /\ last'.b = "ioerror_call_log" => UNCHANGED call_log

\* C14: a call of initialize_call_session_impl that writes its headers
\* leaves each store holding only its header, whatever was appended before
\* and however many resets were made in a row. (A call that cannot open the
\* transcript leaves both stores as they were, one that cannot open the
\* event log resets the transcript only; neither raises.)
C14_ResetIdempotent == []C14_States /\ [][C14_Steps]_vars

\* two resets in a row after a session that appended to both stores
C14_Witness ==
    /\ last.op = "init"
    /\ last.b = "ok"
    /\ last.streak = 2
    /\ last.residue[1] > 1
    /\ last.residue[2] > 1
    /\ transcript = <<TranscriptHeader>>
    /\ call_log = <<CallLogHeader>>

\* C15: a log operation that meets an I/O error returns its marker and does
\* not raise; after a step entry that could not be written the result of the
\* message is a success and the loop goes on to the next turn (or to the
\* summary after the last one); after a summary that could not be written the
\* session is completed.
C15_LogFailuresAbsorbed ==
    /\ last.op = "log" /\ ~last.esc /\ last.b = "ioerror" =>
           /\ ~last.raised
           /\ last.ret = "[TRANSCRIPT ERROR]"
           /\ ~last.loop_esc =>
                  /\ Len(results) = last.step
                  /\ results[last.step].status = "success"
                  /\ IF last.step < Len(script)
                     THEN pc = "nikud" /\ i = last.step + 1
                     ELSE pc = "summary"
    /\ last.op = "summary" /\ last.b = "ioerror" =>
           /\ ~last.raised
           /\ last.ret = "[SUMMARY ERROR]"
           /\ pc = "done"
           /\ session.status = "completed"
    /\ last.op \in {"event", "fatal"} /\ ~last.raised /\ last.b = "ioerror" =>
           /\ last.ret = "[SYSTEM LOG ERROR]"
           /\ pc \in {"summary", "fatal", "done"}
    /\ last.op = "init" /\ last.b # "ok" =>
           /\ ~last.raised
           /\ last.ret = "[INIT ERROR]"
           /\ pc \in {"idle", "done"}

\* the step entry of turn 1 could not be written; turn 2 is next
C15_Witness ==
    /\ last.op = "log"
    /\ last.b = "ioerror"
    /\ pc = "nikud"
    /\ i = 2
    /\ results[1].status = "success"
    /\ StepEntries(transcript) = {}

\* the dependency failures that the stage of the last call met
InferenceFailed ==
    /\ last.op = "nikud"
    /\ last.b.lib = "ok" /\ last.b.path_exists /\ last.b.ctor = "ok"
    /\ last.b.infer = "raise"

Untouched ==
    /\ transcript = Stale
    /\ call_log = Stale
    /\ files = {}
    /\ calls = <<>>
    /\ results = <<>>
    /\ session = NoSession
    /\ runs = 0
    /\ chatterbox_model = "None"

\* C17: without the API credential the process goes from the prerequisite
\* check straight to exit code 1: the crew is never constructed, so the
\* stores are not reset, no stage is called and nothing is appended.
C17_PrerequisiteGate ==
    ~api_key =>
        /\ pc \in {"main", "exited"}
        /\ Untouched
        /\ pc = "exited" => exit_code = 1 /\ last.op = "prereq" /\ ~last.ret
        /\ pc = "main" => exit_code = Running

C17_Witness ==
    /\ ~api_key
    /\ pc = "exited"
    /\ exit_code = 1
    /\ Untouched

\* C18: with the API credential present the process ends with exit code 0,
\* whether the session completed with every turn successful, completed with
\* a failed turn, or failed, and whether the construction of the crew or the
\* session call raised; until then no exit code is set.
C18_ExitCodeIndependent ==
    api_key =>
        /\ pc = "exited" => exit_code = 0
        /\ pc # "exited" => exit_code = Running
        /\ pc = "harness_except" =>
               last.op \in {"construct", "fatal"} /\ last.raised

\* exit code 0 after a session that stopped at a failed turn
C18_Witness ==
    /\ api_key
    /\ pc = "exited"
    /\ exit_code = 0
    /\ session.status = "completed"
    /\ Failed(session.results) # {}

StageOrder == <<"nikud", "tts", "stt", "log">>

CallsOf(k, o) == {c \in 1..Len(calls) : calls[c].step = k /\ calls[c].op = o}

\* C19 as stated: every turn calls each of the four operations exactly once.
C19_OrderAsStated ==
    \A k \in 1..Len(results) :
        \A n \in 1..4 : Cardinality(CallsOf(k, StageOrder[n])) = 1

\* C19 amended: the calls of a session are, in order, diacritize, synthesize,
\* transcribe and step log of turn 1, then of turn 2, and so on, cut off at a
\* call that raised; so a turn that returns success has made each call
\* exactly once, and a turn that fails has made them in that order up to the
\* call that raised. Diacritize receives the turn's script line, synthesize
\* receives diacritize's output and the step number, transcribe receives
\* synthesize's return value; the results follow the script.
C19_StageOrder ==
    /\ \A c \in 1..Len(calls) :
           /\ calls[c].op = StageOrder[((c - 1) % 4) + 1]
           /\ calls[c].step = ((c - 1) \div 4) + 1
           /\ calls[c].raised => c = Len(calls)
           /\ calls[c].op = "nikud" => calls[c].arg = script[calls[c].step].text
           /\ calls[c].op = "tts" =>
                  /\ calls[c].arg = calls[c - 1].ret
                  /\ calls[c].arg_step = calls[c].step
           /\ calls[c].op = "stt" => calls[c].arg = calls[c - 1].ret
    /\ \A k \in 1..Len(results) :
           /\ results[k].original = script[k].text
           /\ results[k].status = "success" =>
                  \A n \in 1..4 :
                      /\ CallsOf(k, StageOrder[n]) = {4 * (k - 1) + n}
                      /\ ~calls[4 * (k - 1) + n].raised
    /\ pc \in {"nikud", "tts", "stt", "log", "except"} =>
           i = Len(results) + 1

\* two turns went through, eight calls in order
C19_Witness ==
    /\ Len(results) = 2
    /\ Succeeded(results) = {1, 2}
    /\ Len(calls) = 8
    /\ calls[6].op = "tts"
    /\ calls[6].arg = results[2].nikud
    /\ calls[6].arg_step = 2
    /\ calls[7].arg = results[2].audio_file

ErrorEvents(cl) ==
    {k \in 1..Len(cl) : cl[k].kind = "event" /\ cl[k].event_type = "ERROR"}

ErrorEvent(k) ==
    [kind |-> "event", event_type |-> "ERROR", message |-> ErrorMessage(k),
     data |-> [step |-> k, speaker |-> script[k].speaker]]

C20_States ==
    /\ last.op \in {"nikud", "tts", "stt", "log"} /\ last.esc =>
           /\ pc = "except"
           /\ calls[Len(calls)].op = last.op
           /\ calls[Len(calls)].step = i
           /\ calls[Len(calls)].raised
    /\ \A k \in Failed(results) :
           /\ calls[Len(calls)].step = k
           /\ calls[Len(calls)].raised
           /\ \A c \in 1..(Len(calls) - 1) : ~calls[c].raised
           /\ runs = 1 =>
                  \A e \in StepEntries(transcript) :
                      transcript[e].step_number < k
    /\ last.op = "event" /\ last.b = "ok" /\ runs = 1 =>
           /\ Cardinality(ErrorEvents(call_log)) = 1
           /\ call_log[Len(call_log)] = ErrorEvent(last.step)

C20_Steps ==
    /\ pc' = "except" => transcript' = transcript
    /\ pc = "except" =>
           /\ transcript' = transcript
           /\ calls' = calls
           /\ last'.op = "event"
           /\ IF last'.b = "ok"
              THEN call_log' = Append(call_log, ErrorEvent(i))
              ELSE call_log' = call_log

\* C20: when an exception leaves a stage of a message, that stage's call is
\* the last call of the session (the remaining stages are not called), the
\* transcript is left as it was and holds no entry for the step, and the
\* except branch appends to the event log exactly one ERROR event with the
\* step number and the speaker, or nothing when the write fails.
C20_FailedMessageEffect == []C20_States /\ [][C20_Steps]_vars

\* turn 2 failed in the synthesis call: no transcription, no step entry, one
\* ERROR event
C20_Witness ==
    /\ pc = "summary"
    /\ last.op = "event"
    /\ last.b = "ok"
    /\ last.step = 2
    /\ results[2].status = "failed"
    /\ calls[Len(calls)].op = "tts"
    /\ Cardinality(StepEntries(transcript)) = 1
    /\ Cardinality(ErrorEvents(call_log)) = 1

\* the step entry that the successful message of turn k leaves
StepEntry(k) ==
    [kind |-> "step", step_number |-> k, speaker |-> script[k].speaker,
     original_text |-> results[k].original, nikud_text |-> results[k].nikud,
     audio_file |-> results[k].audio_file,
     transcribed_text |-> results[k].transcribed]

C21_States ==
    session.status = "completed" /\ io_failed = {} /\ runs = 1 =>
        /\ Len(transcript) = Cardinality(Succeeded(results)) + 2
        /\ transcript[1] = TranscriptHeader
        /\ \A k \in Succeeded(results) : transcript[1 + k] = StepEntry(k)
        /\ SummaryEntries(transcript) = {Len(transcript)}
        /\ transcript[Len(transcript)].total_steps = Len(results)

C21_Steps ==
    /\ SummaryEntries(transcript') # SummaryEntries(transcript) =>
           /\ pc = "summary"
           /\ StepEntries(transcript') = StepEntries(transcript)
    /\ SummaryEntries(transcript) # {} /\ runs' = runs /\ resets' = resets =>
           transcript' = transcript

\* C21: without I/O errors the transcript of a completed session is the
\* header, then the step entries of the successful messages in step order,
\* then one summary; the summary is appended by the step that ends the
\* session, and nothing is appended after it in that session.
C21_TranscriptOrder == []C21_States /\ [][C21_Steps]_vars

\* header, two step entries and the summary after a session that stopped at
\* a failed turn 3
C21_Witness ==
    /\ pc = "done"
    /\ session.status = "completed"
    /\ io_failed = {}
    /\ Len(results) = 3
    /\ Failed(results) = {3}
    /\ Len(transcript) = 4
    /\ transcript[3].step_number = 2
    /\ transcript[4].kind = "summary"

\* C22: when the silent-fallback writer raises, synthesis returns the error
\* marker, which names no file; transcription then returns the empty string
\* without calling Whisper, transcribed becomes the nikud text (the original
\* text when that is empty), and a result with the marker as audio_file is a
\* success.
C22_UnrecoverableSynthesis ==
    /\ last.op = "tts" /\ ~last.esc /\ ~last.primary
           /\ last.b.fallback = "raise" =>
           /\ ~last.raised
           /\ last.ret = FallbackMarker
           /\ ~Exists(files, last.ret)
           /\ pc = "stt"
           /\ audio_file = FallbackMarker
    /\ last.op = "stt" /\ ~last.esc /\ last.arg = FallbackMarker =>
           /\ last.ret = EmptyStr
           /\ ~last.invoked
           /\ pc = "log"
           /\ transcribed_text =
                  (IF nikud_text # EmptyStr THEN nikud_text
                   ELSE script[i].text)
    /\ \A k \in 1..Len(results) :
           "audio_file" \in DOMAIN results[k]
               /\ results[k].audio_file = FallbackMarker =>
               /\ results[k].status = "success"
               /\ results[k].transcribed =
                      (IF results[k].nikud # EmptyStr THEN results[k].nikud
                       ELSE results[k].original)

\* turn 1 returned success with the marker as its audio file, Whisper loaded
C22_Witness ==
    /\ whisper_model = "loaded"
    /\ Len(results) >= 1
    /\ results[1].status = "success"
    /\ results[1].audio_file = FallbackMarker
    /\ results[1].transcribed = results[1].nikud
    /\ files = {}

\* C23: whenever synthesis is called with an integer step number n, a name
\* it returns on the primary path is audio_step_{n}.wav and a name it
\* returns on the fallback path is audio_step_{n}_fallback.wav.
C23_StepKeyedName ==
    last.op = "tts" /\ ~last.esc /\ last.step_arg.given =>
        /\ last.primary =>
               last.ret = <<"output/", "audio_step_",
                            ToStr(last.step_arg.n), ".wav">>
        /\ ~last.primary /\ last.ret # FallbackMarker =>
               last.ret = <<"output/", "audio_step_",
                            ToStr(last.step_arg.n), "_fallback", ".wav">>

\* the calls of stage o that loaded, or tried to load, the stage's model
Loads(o) == {c \in 1..Len(calls) : calls[c].op = o /\ calls[c].load}

\* C24: among the calls of each stage at most one loads the stage's model.
\* (Whisper is loaded when stt_tool is imported, never by a call.)
C24_LoadOnce ==
    /\ Cardinality(Loads("nikud")) <= 1
    /\ Cardinality(Loads("tts")) <= 1
    /\ Loads("stt") = {}

FatalEvent ==
    [kind |-> "event", event_type |-> "FATAL_ERROR", message |-> FatalMessage,
     data |-> NoData]

FatalEvents(cl) ==
    {k \in 1..Len(cl) : cl[k].kind = "event"
                           /\ cl[k].event_type = "FATAL_ERROR"}

C25_States ==
    /\ session.status = "failed" =>
           /\ DOMAIN session = {"status", "error"}
           /\ session.error = FatalMessage
    /\ last.op = "fatal" /\ ~last.esc =>
           /\ ~last.raised
           /\ pc = "done"
           /\ session.status = "failed"
           /\ last.b = "ok" =>
                  /\ call_log[Len(call_log)] = FatalEvent
                  /\ runs = 1 => Cardinality(FatalEvents(call_log)) = 1
    /\ pc = "harness_except" /\ last.op = "fatal" => last.esc
    /\ runs = 1 /\ session.status # "failed" => FatalEvents(call_log) = {}

C25_Steps ==
    pc = "fatal" /\ ~last'.esc =>
        /\ pc' = "done"
        /\ transcript' = transcript
        /\ results' = results
        /\ IF last'.b = "ok"
           THEN call_log' = Append(call_log, FatalEvent)
           ELSE call_log' = call_log

\* C25: the except branch of run_conversation_simulation returns a result
\* with the two fields status = failed and error, appends one FATAL_ERROR
\* event to the event log (nothing when that write fails) and returns to the
\* caller, whatever the event-log write does.
C25_FatalResult == []C25_States /\ [][C25_Steps]_vars

\* the session failed after one successful turn; the FATAL_ERROR event is the
\* last entry of the event log
C25_Witness ==
    /\ pc = "done"
    /\ session.status = "failed"
    /\ last.op = "fatal"
    /\ last.b = "ok"
    /\ call_log[Len(call_log)] = FatalEvent
    /\ StepEntries(transcript) # {}

\* C26: in a completed session result at most one entry is failed, and it
\* is the last one; successful_steps is total_steps or total_steps - 1;
\* total_steps is the number of entries and at most 6.
C26_CompletedResultShape ==
    session.status = "completed" =>
        /\ Cardinality(Failed(session.results)) <= 1
        /\ Failed(session.results) \subseteq {Len(session.results)}
        /\ session.total_steps = Len(session.results)
        /\ session.total_steps <= ScriptLen
        /\ session.successful_steps = Cardinality(Succeeded(session.results))
        /\ session.successful_steps
               \in {session.total_steps, session.total_steps - 1}
        /\ session.successful_steps = session.total_steps - 1 <=>
               Failed(session.results) # {}

\* all six turns were started and the last one failed
C26_Witness ==
    /\ session.status = "completed"
    /\ session.total_steps = 6
    /\ session.successful_steps = 5
    /\ session.results[6].status = "failed"

\* C27: the outcome and the summary follow the number of successful results
\* alone: with at least 4 of them the outcome is "Cancellation processed",
\* and the summary says Issues Resolved Yes and satisfaction Resolved, also
\* when the session stopped at a failed turn.
C27_OutcomeIgnoresEarlyStop ==
    session.status = "completed" =>
        /\ session.outcome = Outcome(session.successful_steps)
        /\ session.successful_steps >= 4 =>
               /\ session.outcome = "Cancellation processed"
               /\ last.op = "summary" /\ last.b = "ok" =>
                      /\ transcript[Len(transcript)].outcome =
                             "Cancellation processed"
                      /\ transcript[Len(transcript)].issues_resolved = "Yes"
                      /\ transcript[Len(transcript)].customer_satisfaction =
                             "Resolved"
        /\ session.successful_steps < 4 /\ last.op = "summary"
               /\ last.b = "ok" =>
               /\ transcript[Len(transcript)].issues_resolved = "No"
               /\ transcript[Len(transcript)].customer_satisfaction =
                      "Unresolved"

\* stopped at the failed turn 5 after four successful turns
C27_Witness ==
    /\ pc = "done"
    /\ Failed(results) = {5}
    /\ session.successful_steps = 4
    /\ session.outcome = "Cancellation processed"
    /\ transcript[Len(transcript)].kind = "summary"
    /\ transcript[Len(transcript)].issues_resolved = "Yes"
    /\ transcript[Len(transcript)].customer_satisfaction = "Resolved"

\* C28: the patched torch.load is in effect during every Chatterbox load
\* attempt of initialize_chatterbox, the first and every retry after a
\* failed load, and torch.load is the original function whenever
\* initialize_chatterbox has returned.
C28_PatchLifecycle ==
    last.op = "tts" /\ ~last.esc =>
        /\ last.load_attempted => last.torch_at_load = "patched"
        /\ torch_load = "original"

====
